---- MODULE Spec2Model ----
(***************************************************************************)
(* A model of icevision's hybrid multitask glue:                           *)
(*   - HybridAugmentationsRecordDataset  (models/multitask/data/dataset.py)*)
(*   - build_single_aug_batch   (models/multitask/ultralytics/dataloader.py)*)
(*   - HybridSingleStageDetectorLightningAdapter                           *)
(*                                      (models/multitask/mmdet/pl_adapter.py)*)
(* Python indexes from 0; sequences here index from 1, so the sample       *)
(* record records[0] is record 1 of the model.                             *)
(***************************************************************************)
EXTENDS Integers, Sequences, FiniteSets, TLC

\* ------------------------------------------------------------------ bounds
MaxGroups == 2
NumRecords == 2
MaxBatch == 3
MaxTargets == 2
MaxMetrics == 2
MaxSteps == 3

\* ------------------------------------------------------------- state
VARIABLES
    self,        \* the dataset object's fields, as __init__ assigns them
    dsState,     \* "new" | "ready" | "failed": where construction stands
    initError,   \* what __init__ raised: [type, missing]
    recHeap,     \* record objects by identity: 1..NumRecords are the stored ones
    fpc,         \* each fetch's position in __getitem__
    fidx,        \* each fetch's index i
    frec,        \* each fetch's local `record` (an identity in recHeap)
    forig,       \* each fetch's local `original_img` (an image identity)
    fcalls,      \* each fetch's classification pipeline applications so far
    ferr,        \* the exception each fetch ended with
    \* build_single_aug_batch
    brecords,    \* the records argument
    bpc,         \* the position in the function
    bi,          \* the loop's i
    bimages,     \* images
    btargets,    \* detection_targets
    bcur,        \* detection_target of the current turn
    bcls,        \* classification_targets
    bassigned,   \* the value line 39 assigned, turn by turn
    berr,        \* the exception raised: [type, at]
    bresult,     \* the batch returned
    \* HybridSingleStageDetectorLightningAdapter
    metrics,     \* self.metrics
    heads,       \* self.model.classifier_heads, its keys in order
    training,    \* self.model.training: training mode (TRUE) or evaluation mode
    apc,         \* "off" | "idle" | a position in validation_step | "raised":
                 \* the last callback returned, is under way, or raised
    alast,       \* the callback the driver issued last
    adata,       \* the callback's batch data
    aout,        \* the callback's `outputs`
    acalls,      \* the calls the callback made on the model, in order
    alogged,     \* the callback's self.log calls, in order
    aaccum,      \* the metrics the callback called accumulate on, in order
    aret,        \* what the callback returned
    araised,     \* the exception that reached the driver
    validated,   \* the driver has issued a validation_step
    nsteps       \* the callbacks issued so far

dsVars == <<self, dsState, initError, recHeap, fpc, fidx, frec, forig, fcalls, ferr>>

bVars == <<brecords, bpc, bi, bimages, btargets, bcur, bcls, bassigned, berr, bresult>>

aVars == <<metrics, heads, training, apc, alast, adata, aout, acalls, alogged,
           aaccum, aret, araised, validated, nsteps>>

vars == <<dsVars, bVars, aVars>>

\* No batch is being built.
BOff ==
    /\ brecords = <<>>
    /\ bpc = "off"
    /\ bi = 0
    /\ bimages = <<>>
    /\ btargets = <<>>
    /\ bcur = <<>>
    /\ bcls = <<>>
    /\ bassigned = <<>>
    /\ berr = [type |-> "none", at |-> "none"]
    /\ bresult = <<>>

NoData == [keys |-> {}]

NoOutputs == [loss |-> 0, log_vars |-> <<>>]

\* No adapter is running.
AOff ==
    /\ metrics = <<>>
    /\ heads = <<>>
    /\ training = TRUE
    /\ apc = "off"
    /\ alast = "none"
    /\ adata = NoData
    /\ aout = NoOutputs
    /\ acalls = <<>>
    /\ alogged = <<>>
    /\ aaccum = <<>>
    /\ aret = 0
    /\ araised = "none"
    /\ validated = FALSE
    /\ nsteps = 0

\* ============================================================ dataset.py

\* The classification task names a configuration or a record may use.
Names == {"color_tones", "shot_framing"}

\* The data-loading workers that fetch concurrently.
Fetchers == {1, 2}

Range(s) == {s[k] : k \in 1..Len(s)}

\* Task lists: the sequences over Names, a task named twice included.
TaskLists == UNION {[1..n -> Names] : n \in 0..Cardinality(Names)}

\* The group dicts a configuration may hold: well formed, without its
\* "transforms" key, or without its "tasks" key.
GroupOptions ==
    {[keys |-> ks, tasks |-> tl] :
        ks \in {{"tasks", "transforms"}, {"tasks"}}, tl \in TaskLists}
    \cup {[keys |-> {"transforms"}, tasks |-> <<>>]}

\* classification_transforms_groups.values(), in the dict's insertion order.
\* Nothing keeps two groups from naming the same task.
GroupSeqs == UNION {[1..n -> GroupOptions] : n \in 0..MaxGroups}

\* What the detection pipeline does to the image it is given: nothing is
\* configured, it overwrites the array it was given, or it returns a new one.
DetectionModes == {"none", "inplace", "fresh"}

\* What the storage decoder hands back for a raw image.
ImageKinds == {"ndarray", "pil"}

norm_mean == <<485, 456, 406>>
norm_std == <<229, 224, 225>>

NoError == [type |-> "none", missing |-> <<>>]

\* ---- records, components, images
Comp(task, type, img) == [task |-> task, type |-> type, img |-> img]

Image(kind, hist) == [kind |-> kind, hist |-> hist]

RECURSIVE LabelComps(_)
LabelComps(tasks) ==
    IF tasks = {} THEN <<>>
    ELSE LET t == CHOOSE x \in tasks : TRUE
         IN <<Comp(t, "labels", 0)>> \o LabelComps(tasks \ {t})

\* A record as the record store keeps it: a file path component on the common
\* task (its image not decoded yet), detection boxes, and one labels
\* component per classification task.
StoredRecord(i, tasks, kind) ==
    [file |-> i,
     decodes |-> kind,
     comps |-> <<Comp("common", "image", 0), Comp("detection", "bboxes", 0)>>
               \o LabelComps(tasks),
     imgs |-> <<>>]

\* hasattr(record, attr): the record has a component on the task named attr.
HasAttr(rec, attr) == \E k \in 1..Len(rec.comps) : rec.comps[k].task = attr

ClassificationTasks(rec) ==
    {rec.comps[k].task : k \in {j \in 1..Len(rec.comps) : rec.comps[j].type = "labels"}}

RECURSIVE Flatten(_)
Flatten(lists) ==
    IF lists = <<>> THEN <<>> ELSE Head(lists) \o Flatten(Tail(lists))

\* A validate() that drops the `not` of line 69.
RECURSIVE MissingTasksPresent(_, _)
MissingTasksPresent(attrs, sample) ==
    IF attrs = <<>> THEN <<>>
    ELSE (IF HasAttr(sample, Head(attrs)) THEN <<Head(attrs)>> ELSE <<>>)
         \o MissingTasksPresent(Tail(attrs), sample)

\* lines 65-70: the declared names the sample record has no attribute for.
RECURSIVE MissingTasks(_, _)
MissingTasks(attrs, sample) ==
    IF attrs = <<>> THEN <<>>
    ELSE (IF ~HasAttr(sample, Head(attrs)) THEN <<Head(attrs)>> ELSE <<>>)
         \o MissingTasks(Tail(attrs), sample)

DeclaredTasks(groups) ==
    Flatten([k \in 1..Len(groups) |-> groups[k].tasks])

\* validate(): the keys of every group first, then the declared tasks against
\* the sample record.
Validate(groups, sample) ==
    IF \E k \in 1..Len(groups) : ~({"tasks", "transforms"} \subseteq groups[k].keys)
    THEN [type |-> "AssertionError", missing |-> <<>>]
    ELSE LET missing_tasks == MissingTasks(DeclaredTasks(groups), sample)
         IN IF missing_tasks # <<>>
            THEN [type |-> "ValueError", missing |-> missing_tasks]
            ELSE NoError

NoSelf ==
    [records |-> <<>>, classification_transforms_groups |-> <<>>,
     detection_transforms |-> "none", norm_mean |-> <<>>, norm_std |-> <<>>,
     debug |-> FALSE]

\* __init__: assign the fields, then validate.
Construct(groups, tasks, kind, det, debug) ==
    /\ LET stored == [i \in 1..NumRecords |-> StoredRecord(i, tasks, kind)]
           err == Validate(groups, stored[1])
       IN /\ self' = [records |-> [i \in 1..NumRecords |-> i],
                      classification_transforms_groups |-> groups,
                      detection_transforms |-> det,
                      norm_mean |-> norm_mean,
                      norm_std |-> norm_std,
                      debug |-> debug]
          /\ recHeap' = stored
          /\ initError' = err
          /\ dsState' = IF err.type = "none" THEN "ready" ELSE "failed"
    /\ UNCHANGED <<fpc, fidx, frec, forig, fcalls, ferr, bVars, aVars>>

DsOff ==
    /\ self = NoSelf
    /\ dsState = "new"
    /\ initError = NoError
    /\ recHeap = <<>>
    /\ fpc = [p \in Fetchers |-> "idle"]
    /\ fidx = [p \in Fetchers |-> 0]
    /\ frec = [p \in Fetchers |-> 0]
    /\ forig = [p \in Fetchers |-> 0]
    /\ fcalls = [p \in Fetchers |-> <<>>]
    /\ ferr = [p \in Fetchers |-> "none"]

DoConstruct ==
    /\ dsState = "new"
    /\ \E groups \in GroupSeqs, tasks \in SUBSET Names, kind \in ImageKinds,
          det \in DetectionModes, debug \in BOOLEAN :
           Construct(groups, tasks, kind, det, debug)

\* ---- __getitem__

\* The task's first component of the type, in the order the components
\* were added: the one an attribute of the task resolves to.
CompIndex(rec, task, type) ==
    LET found == {k \in 1..Len(rec.comps) :
                    rec.comps[k].task = task /\ rec.comps[k].type = type}
    IN IF found = {} THEN 0
       ELSE CHOOSE k \in found : \A j \in found : k <= j

\* A new image object in the record's arena; its identity is its position.
Alloc(rec, img) == [rec EXCEPT !.imgs = Append(@, img)]

NewId(rec) == Len(rec.imgs) + 1

\* record.add_component(ImageRecordComponent(Task(task))): the record gains
\* an image component on the task, its image not set yet (0 stands for None),
\* also when the task has an image component already.
AddComponent(rec, task) ==
    [rec EXCEPT !.comps = Append(@, Comp(task, "image", 0))]

\* getattr(record, task).set_img(img): rebinds the task's image component.
TaskSetImg(rec, task, id) ==
    [rec EXCEPT !.comps[CompIndex(rec, task, "image")].img = id]

\* record.img: the image of the record's own (common) image component.
RecordImg(rec) == rec.comps[CompIndex(rec, "common", "image")].img

\* record.load(): a deep copy of the stored record with its image decoded.
Load(stored) ==
    TaskSetImg(Alloc(stored, Image(stored.decodes, << <<"raw", stored.file>> >>)),
               "common", 1)

FreshId(p) == NumRecords + p

\* A fetch that decodes the stored record itself instead of a copy of it.
LoadRecordInPlace(heap, i, p) == [id |-> i, obj |-> Load(heap[i])]

\* line 81: record = self.records[i].load()
LoadRecord(heap, i, p) == [id |-> FreshId(p), obj |-> Load(heap[i])]

\* A fetch that keeps a reference to record.img instead of a deep copy.
CopyOriginalNoCopy(rec) ==
    LET src == rec.imgs[RecordImg(rec)]
    IN IF src.kind = "ndarray"
       THEN [rec |-> Alloc(rec, Image("pil", src.hist)), orig |-> NewId(rec)]
       ELSE [rec |-> rec, orig |-> RecordImg(rec)]

\* lines 84-86: original_img = deepcopy(record.img), made a PIL image.
CopyOriginal(rec) ==
    LET src == rec.imgs[RecordImg(rec)]
        r1 == Alloc(rec, src)
        id1 == NewId(rec)
    IN IF src.kind = "ndarray"
       THEN [rec |-> Alloc(r1, Image("pil", src.hist)), orig |-> NewId(r1)]
       ELSE [rec |-> r1, orig |-> id1]

\* lines 89-93: the detection pipeline, then the "detection" image component.
Detect(rec, mode) ==
    LET id == RecordImg(rec)
        out == Image("ndarray", Append(rec.imgs[id].hist, <<"det", 0>>))
        r1 == CASE mode = "none" -> rec
                [] mode = "inplace" -> [rec EXCEPT !.imgs[id] = out]
                [] mode = "fresh" -> TaskSetImg(Alloc(rec, out), "common", NewId(rec))
    IN TaskSetImg(AddComponent(r1, "detection"), "detection", RecordImg(r1))

\* lines 110-112: attach the group's image to every task of the group.
RECURSIVE AttachTasks(_, _, _)
AttachTasks(rec, tasks, id) ==
    IF tasks = <<>> THEN rec
    ELSE AttachTasks(TaskSetImg(AddComponent(rec, Head(tasks)), Head(tasks), id),
                     Tail(tasks), id)

\* lines 100-114, for group g: its pipeline on original_img, once, and the
\* result attached to its tasks. calls records each application: the group
\* and the image it was given.
ClassifyGroup(rec, groups, orig, g, calls) ==
    LET input == rec.imgs[orig]
        tfmd_img == Image("pil", Append(input.hist, <<"cls", g>>))
        r1 == Alloc(rec, tfmd_img)
    IN [rec |-> AttachTasks(r1, groups[g].tasks, NewId(rec)),
        calls |-> Append(calls, [group |-> g, input |-> input])]

\* lines 99-114: every group, in the dict's order.
RECURSIVE ClassifyGroups(_, _, _, _, _)
ClassifyGroups(rec, groups, orig, g, calls) ==
    IF g > Len(groups) THEN [rec |-> rec, calls |-> calls]
    ELSE LET c == ClassifyGroup(rec, groups, orig, g, calls)
         IN ClassifyGroups(c.rec, groups, orig, g + 1, c.calls)

\* What normalize() leaves of the statistics in the image.
StatsTag(mean, std) == mean[1] + mean[2] + mean[3] + std[1] + std[2] + std[3]

\* A normalization that writes into the array it was given.
NormalizeImgInPlace(rec, id, mean, std) ==
    [rec |-> [rec EXCEPT !.imgs[id] =
                Image("ndarray", Append(@.hist, <<"norm", StatsTag(mean, std)>>))],
     id |-> id]

\* lines 126-128: comp.set_img(normalize(comp.img, mean, std)): normalize
\* returns a new array, which the component is rebound to.
NormalizeImg(rec, id, mean, std) ==
    [rec |-> Alloc(rec, Image("ndarray",
                              Append(rec.imgs[id].hist, <<"norm", StatsTag(mean, std)>>))),
     id |-> NewId(rec)]

\* lines 119-128, for the component at position k.
NormalizeComp(rec, k, me) ==
    IF rec.comps[k].type # "image" THEN rec
    ELSE LET id0 == rec.comps[k].img
             \* lines 121-122
             r1 == IF rec.imgs[id0].kind = "pil"
                   THEN [Alloc(rec, Image("ndarray", rec.imgs[id0].hist))
                            EXCEPT !.comps[k].img = NewId(rec)]
                   ELSE rec
             id1 == r1.comps[k].img
         IN IF me.debug
            THEN [Alloc(r1, Image("pil", r1.imgs[id1].hist))
                     EXCEPT !.comps[k].img = NewId(r1)]
            ELSE LET n == NormalizeImg(r1, id1, me.norm_mean, me.norm_std)
                 IN [n.rec EXCEPT !.comps[k].img = n.id]

\* lines 118-128: the components in order. An image component whose image
\* was never set holds None, which neither PIL.Image.fromarray nor
\* normalize takes: the loop ends there with an AttributeError.
RECURSIVE NormalizeComps(_, _, _)
NormalizeComps(rec, k, me) ==
    IF k > Len(rec.comps) THEN [rec |-> rec, err |-> "none"]
    ELSE IF rec.comps[k].type = "image" /\ rec.comps[k].img = 0
    THEN [rec |-> rec, err |-> "AttributeError"]
    ELSE NormalizeComps(NormalizeComp(rec, k, me), k + 1, me)

\* Where a fetch stands once k groups have had their turn.
AfterGroups(me, k) ==
    IF k < Len(me.classification_transforms_groups) THEN "classify" ELSE "normalize"

\* lines 81-86. The sampler hands an index to one worker only.
FetchLoad(p, i) ==
    /\ dsState = "ready"
    /\ fpc[p] = "idle"
    /\ i \in 1..Len(self.records)
    /\ \A q \in Fetchers : fidx[q] # i
    /\ LET l == LoadRecord(recHeap, self.records[i], p)
           c == CopyOriginal(l.obj)
       IN /\ recHeap' = (l.id :> c.rec) @@ recHeap
          /\ frec' = [frec EXCEPT ![p] = l.id]
          /\ forig' = [forig EXCEPT ![p] = c.orig]
    /\ fidx' = [fidx EXCEPT ![p] = i]
    /\ fpc' = [fpc EXCEPT ![p] = "detect"]
    /\ UNCHANGED <<self, dsState, initError, fcalls, ferr, bVars, aVars>>

\* lines 89-93
FetchDetect(p) ==
    /\ fpc[p] = "detect"
    /\ recHeap' = [recHeap EXCEPT ![frec[p]] = Detect(@, self.detection_transforms)]
    /\ fpc' = [fpc EXCEPT ![p] = AfterGroups(self, 0)]
    /\ UNCHANGED <<self, dsState, initError, fidx, frec, forig, fcalls, ferr, bVars, aVars>>

\* One turn of the loop of lines 99-114.
FetchClassify(p) ==
    /\ fpc[p] = "classify"
    /\ LET g == Len(fcalls[p]) + 1
           c == ClassifyGroup(recHeap[frec[p]], self.classification_transforms_groups,
                              forig[p], g, fcalls[p])
       IN /\ recHeap' = [recHeap EXCEPT ![frec[p]] = c.rec]
          /\ fcalls' = [fcalls EXCEPT ![p] = c.calls]
          /\ fpc' = [fpc EXCEPT ![p] = AfterGroups(self, g)]
    /\ UNCHANGED <<self, dsState, initError, fidx, frec, forig, ferr, bVars, aVars>>

\* lines 118-130: the record is returned, or the loop's exception leaves
\* the fetch.
FetchNormalize(p) ==
    /\ fpc[p] = "normalize"
    /\ LET n == NormalizeComps(recHeap[frec[p]], 1, self)
       IN /\ recHeap' = [recHeap EXCEPT ![frec[p]] = n.rec]
          /\ ferr' = [ferr EXCEPT ![p] = n.err]
          /\ fpc' = [fpc EXCEPT ![p] = IF n.err = "none" THEN "done" ELSE "raised"]
    /\ UNCHANGED <<self, dsState, initError, fidx, frec, forig, fcalls, bVars, aVars>>

DsNext ==
    \/ DoConstruct
    \/ \E p \in Fetchers, i \in 1..NumRecords : FetchLoad(p, i)
    \/ \E p \in Fetchers : FetchDetect(p)
    \/ \E p \in Fetchers : FetchClassify(p)
    \/ \E p \in Fetchers : FetchNormalize(p)

\* A whole fetch of index i by worker p, run with nothing else running: the
\* record it leaves and the exception it ends with.
FetchAlone(heap, me, i, p) ==
    LET l == LoadRecord(heap, me.records[i], p)
        c == CopyOriginal(l.obj)
        d == Detect(c.rec, me.detection_transforms)
        g == ClassifyGroups(d, me.classification_transforms_groups, c.orig, 1, <<>>)
    IN NormalizeComps(g.rec, 1, me)

DsInit == DsOff /\ BOff /\ AOff

SpecDataset == DsInit /\ [][DsNext]_vars

\* ------------------------------------------------ dataset.py: the claims

Groups == self.classification_transforms_groups

Declared == Range(DeclaredTasks(Groups))

\* The sample record, records[0].
Sample == recHeap[self.records[1]]

WellFormed ==
    \A k \in 1..Len(Groups) : {"tasks", "transforms"} \subseteq Groups[k].keys

AbsentDeclared == {t \in Declared : ~HasAttr(Sample, t)}

\* C1: construction succeeds only when the union of the task names declared
\* across all groups is exactly the set of classification tasks present on the
\* sample record records[0].
C1_ExactMatchRequired ==
    dsState = "ready" => Declared = ClassificationTasks(Sample)

\* C2, as stated: whenever a declared task is absent from the sample record,
\* construction ends with a ValueError listing exactly the absent declared
\* tasks, and whenever none is absent validation raises nothing.
C2_AsStated ==
    dsState # "new" =>
        IF AbsentDeclared # {}
        THEN /\ dsState = "failed"
             /\ initError.type = "ValueError"
             /\ Range(initError.missing) = AbsentDeclared
        ELSE dsState = "ready" /\ initError = NoError

\* C2, amended: when every group dict has both its "tasks" and "transforms"
\* keys, construction raises a ValueError, before any fetch, listing exactly
\* the declared tasks absent from records[0] if there is one, and raises
\* nothing if there is none; a group dict lacking one of the two keys makes
\* validation raise an AssertionError first.
C2_MissingTasksExact ==
    dsState # "new" =>
        /\ WellFormed =>
              IF AbsentDeclared # {}
              THEN /\ dsState = "failed"
                   /\ initError.type = "ValueError"
                   /\ Range(initError.missing) = AbsentDeclared
              ELSE dsState = "ready" /\ initError = NoError
        /\ ~WellFormed => dsState = "failed" /\ initError.type = "AssertionError"
        /\ dsState = "failed" => \A p \in Fetchers : fpc[p] = "idle"

C2_Witness ==
    /\ dsState = "failed"
    /\ initError.type = "ValueError"
    /\ initError.missing = <<"shot_framing">>
    /\ "color_tones" \in Declared

ImageTasks(rec) ==
    {rec.comps[k].task : k \in {j \in 1..Len(rec.comps) : rec.comps[j].type = "image"}}

ImgOf(rec, task) == rec.imgs[rec.comps[CompIndex(rec, task, "image")].img]

RawHist(i) == << <<"raw", i>> >>

\* The image the detection pipeline leaves on the record.
DetHist(i) ==
    IF self.detection_transforms = "none" THEN RawHist(i)
    ELSE Append(RawHist(i), <<"det", 0>>)

\* The last of the first n groups that names task t.
LastGroup(t, n) ==
    CHOOSE k \in 1..n :
        /\ t \in Range(Groups[k].tasks)
        /\ \A j \in (k + 1)..n : t \notin Range(Groups[j].tasks)

NamedTwice ==
    \E a, b \in 1..Len(DeclaredTasks(Groups)) :
        a # b /\ DeclaredTasks(Groups)[a] = DeclaredTasks(Groups)[b]

\* C3: in a fetch every group's pipeline is applied exactly once, to the
\* untouched copy of the raw image (never the detection output, never another
\* group's output); a group's image is attached, in the group's turn, as the
\* image component of every task it names (where a later group names the
\* task again, that group's image takes its place); the detection pipeline's
\* output is the "detection" image component; and the fetched record has an
\* image component for "detection" and for every declared task, each task
\* carrying the image of the group that names it. A fetch ends without a
\* record only in a configuration that names a task twice.
C3_GroupsOnUntouchedCopy ==
    \A p \in Fetchers :
        fpc[p] \in {"classify", "normalize", "done", "raised"} =>
            LET rec == recHeap[frec[p]]
                n == Len(fcalls[p])
                raw == RawHist(fidx[p])
            IN /\ n <= Len(Groups)
               /\ fpc[p] \in {"normalize", "done", "raised"} => n = Len(Groups)
               /\ \A k \in 1..n :
                     /\ fcalls[p][k].group = k
                     /\ fcalls[p][k].input = Image("pil", raw)
               /\ "detection" \in ImageTasks(rec)
               /\ fpc[p] \in {"classify", "normalize"} =>
                     /\ ImgOf(rec, "detection").hist = DetHist(fidx[p])
                     /\ \A k \in 1..n : \A t \in Range(Groups[k].tasks) :
                           /\ t \in ImageTasks(rec)
                           /\ ImgOf(rec, t) =
                                Image("pil", Append(raw, <<"cls", LastGroup(t, n)>>))
               /\ fpc[p] = "done" =>
                     /\ Declared \cup {"detection"} \subseteq ImageTasks(rec)
                     /\ SubSeq(ImgOf(rec, "detection").hist, 1, Len(DetHist(fidx[p])))
                            = DetHist(fidx[p])
                     /\ \A k \in 1..n : \A t \in Range(Groups[k].tasks) :
                           SubSeq(ImgOf(rec, t).hist, 1, 2) = Append(raw, <<"cls", k>>)
               /\ fpc[p] = "raised" <=> (fpc[p] \notin {"classify", "normalize"} /\ NamedTwice)

C3_Witness ==
    /\ fpc[1] = "done"
    /\ self.detection_transforms = "inplace"
    /\ Len(Groups) = 2
    /\ Groups[1].tasks = <<"color_tones">>
    /\ Groups[2].tasks = <<"shot_framing">>
    /\ Len(fcalls[1]) = 2

NormCount(hist) == Cardinality({k \in 1..Len(hist) : hist[k][1] = "norm"})

\* C4: every image component of a record fetched with debug=False (the
\* record's own image, "detection", each classification task's image) has been
\* normalized with the configured mean/std exactly once, also when several
\* components were attached from one shared image object; with debug=True none
\* is normalized and each is a displayable (PIL) image.
C4_NormalizedExactlyOnce ==
    \A p \in Fetchers :
        fpc[p] = "done" =>
            LET rec == recHeap[frec[p]]
            IN /\ {"common", "detection"} \cup Declared \subseteq ImageTasks(rec)
               /\ \A t \in ImageTasks(rec) :
                     LET im == ImgOf(rec, t)
                     IN IF self.debug
                        THEN im.kind = "pil" /\ NormCount(im.hist) = 0
                        ELSE /\ im.kind = "ndarray"
                             /\ NormCount(im.hist) = 1
                             /\ im.hist[Len(im.hist)] =
                                  <<"norm", StatsTag(self.norm_mean, self.norm_std)>>

\* Two tasks share their group's image object, and the record's own image and
\* "detection" share theirs.
C4_Witness ==
    /\ fpc[1] = "done"
    /\ ~self.debug
    /\ self.detection_transforms = "none"
    /\ Len(Groups) = 1
    /\ Len(Groups[1].tasks) = 2
    /\ NormCount(ImgOf(recHeap[frec[1]], "shot_framing").hist) = 1

StoredIds == 1..NumRecords

\* C8: interleaved fetches share no mutable state: no step of a fetch writes
\* a field of the dataset object or a stored record, a step of a fetch changes
\* no record but the one that fetch loaded, and the record a fetch returns for
\* index i (or the exception it ends with) is the one the fetch of i yields
\* when it runs alone.
C8_FetchesIndependent ==
    /\ [][dsState = "ready" =>
            /\ self' = self
            /\ \A i \in StoredIds : recHeap'[i] = recHeap[i]
            /\ \A p \in Fetchers :
                  fpc'[p] = fpc[p] /\ fcalls'[p] = fcalls[p] /\ frec[p] # 0
                      => recHeap'[frec[p]] = recHeap[frec[p]]]_vars
    /\ [](\A p \in Fetchers :
            fpc[p] \in {"done", "raised"} =>
                LET alone == FetchAlone(recHeap, self, fidx[p], p)
                IN recHeap[frec[p]] = alone.rec /\ ferr[p] = alone.err)

\* Two fetches of distinct indices, both under way.
C8_Witness ==
    /\ fpc[1] = "normalize"
    /\ fpc[2] = "classify"
    /\ Len(fcalls[2]) = 1
    /\ fidx[1] # fidx[2]
    /\ fidx[2] # 0

\* ========================================================= dataloader.py

\* The classification-labels components a batched record may carry.
LabelOptions ==
    {<<>>,
     <<[name |-> "color_tones", is_multilabel |-> FALSE, label_ids |-> <<1>>,
        one_hot |-> <<0, 1>>]>>,
     <<[name |-> "color_tones", is_multilabel |-> TRUE, label_ids |-> <<0, 1>>,
        one_hot |-> <<1, 1>>]>>}

\* A fetched record, as the batch builder sees it: its image, the number of
\* its detection targets and its classification components.
BatchRecords ==
    {[img |-> 1, ntargets |-> n, labels |-> l] : n \in 0..MaxTargets, l \in LabelOptions}

BatchInputs == UNION {[1..n -> BatchRecords] : n \in 0..MaxBatch}

\* _build_train_detection_sample(record): the image and one target row per
\* box, the leading column left at 0 for the batch index.
BuildTrainDetectionSample(record) ==
    [image |-> record.img,
     target |-> [j \in 1..record.ntargets |-> <<0, j>>]]

\* detection_target.numel()
Numel(target) == 2 * Len(target)

\* line 39, right-hand side: i if detection_target.numel() > 0 else None
IndexValue(target, i) == IF Numel(target) > 0 THEN [none |-> FALSE, v |-> i]
                                              ELSE [none |-> TRUE, v |-> 0]

\* detection_target[:, 0] = v
SetLeadingColumn(target, v) == [j \in 1..Len(target) |-> <<v, target[j][2]>>]

\* detection_target[:, 0] = None: the tensor runtime takes no None as the
\* value of a slice assignment, whatever the slice selects.
AssignRaises(v) == v.none

\* The names bound in the function's scope when line 40 runs.
BoundNames ==
    {"records", "images", "detection_targets", "classification_targets",
     "i", "record", "image", "detection_target"}

\* A line 40 that appends the turn's own tensor.
AppendedNameBound == "detection_target"

\* line 40: detection_targets.append(target)
AppendedName == "target"

\* lines 43-51: the record's classification labels, task by task.
RECURSIVE CollectLabels(_, _)
CollectLabels(cls, comps) ==
    IF comps = <<>> THEN cls
    ELSE LET comp == Head(comps)
             old == IF \E k \in 1..Len(cls) : cls[k].name = comp.name
                    THEN (CHOOSE k \in 1..Len(cls) : cls[k].name = comp.name)
                    ELSE 0
             base == IF old = 0 THEN Append(cls, [name |-> comp.name, v |-> <<>>]) ELSE cls
             at == IF old = 0 THEN Len(base) ELSE old
         IN CollectLabels(
                [base EXCEPT ![at].v =
                    IF comp.is_multilabel THEN Append(@, comp.one_hot)
                    ELSE @ \o [j \in 1..Len(comp.label_ids) |-> <<comp.label_ids[j]>>]],
                Tail(comps))

\* torch.cat(detection_targets, 0)
RECURSIVE Cat(_)
Cat(tensors) == IF tensors = <<>> THEN <<>> ELSE Head(tensors) \o Cat(Tail(tensors))

BInit ==
    /\ brecords \in BatchInputs
    /\ bpc = "loop"
    /\ bi = 0
    /\ bimages = <<>>
    /\ btargets = <<>>
    /\ bcur = <<>>
    /\ bcls = <<>>
    /\ bassigned = <<>>
    /\ berr = [type |-> "none", at |-> "none"]
    /\ bresult = <<>>

Raise(type, at) ==
    /\ berr' = [type |-> type, at |-> at]
    /\ bpc' = "done"

\* lines 35-37: the next record's sample, or the end of the loop.
BSample ==
    /\ bpc = "loop"
    /\ IF bi < Len(brecords)
       THEN LET s == BuildTrainDetectionSample(brecords[bi + 1])
            IN /\ bimages' = Append(bimages, s.image)
               /\ bcur' = s.target
               /\ bpc' = "assign"
       ELSE /\ bpc' = "finish"
            /\ UNCHANGED <<bimages, bcur>>
    /\ UNCHANGED <<brecords, bi, btargets, bcls, bassigned, berr, bresult, dsVars, aVars>>

\* line 39
BAssign ==
    /\ bpc = "assign"
    /\ LET v == IndexValue(bcur, bi)
       IN /\ bassigned' = Append(bassigned, v)
          /\ IF AssignRaises(v)
             THEN Raise("TypeError", "assign") /\ bcur' = bcur
             ELSE /\ bcur' = SetLeadingColumn(bcur, v.v)
                  /\ bpc' = "append"
                  /\ berr' = berr
    /\ UNCHANGED <<brecords, bi, bimages, btargets, bcls, bresult, dsVars, aVars>>

\* lines 40-51: the append, then the record's classification labels.
BAppend ==
    /\ bpc = "append"
    /\ IF AppendedName \notin BoundNames
       THEN /\ Raise("NameError", "append")
            /\ UNCHANGED <<btargets, bcls, bi>>
       ELSE /\ btargets' = Append(btargets, bcur)
            /\ bcls' = CollectLabels(bcls, brecords[bi + 1].labels)
            /\ bi' = bi + 1
            /\ bpc' = "loop"
            /\ berr' = berr
    /\ UNCHANGED <<brecords, bimages, bcur, bassigned, bresult, dsVars, aVars>>

\* lines 53-59: torch.stack and torch.cat refuse an empty list.
BFinish ==
    /\ bpc = "finish"
    /\ IF bimages = <<>>
       THEN Raise("RuntimeError", "stack") /\ bresult' = bresult
       ELSE IF btargets = <<>>
       THEN Raise("RuntimeError", "concat") /\ bresult' = bresult
       ELSE /\ bresult' = <<[images |-> bimages, targets |-> Cat(btargets),
                             classification_targets |-> bcls]>>
            /\ bpc' = "done"
            /\ berr' = berr
    /\ UNCHANGED <<brecords, bi, bimages, btargets, bcur, bcls, bassigned, dsVars, aVars>>

BNext ==
    \/ BSample
    \/ BAssign
    \/ BAppend
    \/ BFinish

BatchInit == BInit /\ DsOff /\ AOff

SpecBatch == BatchInit /\ [][BNext]_vars

\* --------------------------------------------- dataloader.py: the claims

\* The rows record k (counted from 0) has in the returned target tensor.
RowsOf(k) ==
    LET before == Cat([j \in 1..k |-> BuildTrainDetectionSample(brecords[j]).target])
        n == brecords[k + 1].ntargets
    IN IF bresult = <<>> \/ Len(bresult[1].targets) < Len(before) + n THEN <<>>
       ELSE SubSeq(bresult[1].targets, Len(before) + 1, Len(before) + n)

\* C5: build_single_aug_batch returns, for any batch, a concatenated target
\* tensor in which every row of the record at position k has k in its leading
\* column; a record with no detection targets contributes no rows and does
\* not keep the batch from being built.
C5_BatchIndexed ==
    bpc = "done" =>
        /\ berr.type = "none"
        /\ bresult # <<>>
        /\ \A k \in 0..(Len(brecords) - 1) :
              /\ Len(RowsOf(k)) = brecords[k + 1].ntargets
              /\ \A j \in 1..Len(RowsOf(k)) : RowsOf(k)[j][1] = k

\* C9, as stated: the index assignment uses None for a record with no
\* detection targets, and the undefined name is referenced only at the
\* concatenation step, after the loop has processed every record.
C9_AsStated ==
    /\ \A k \in 1..Len(bassigned) :
          bassigned[k].none <=> brecords[k].ntargets = 0
    /\ berr.type = "NameError" =>
          /\ berr.at = "concat"
          /\ bi = Len(brecords)
          /\ Len(btargets) = Len(brecords)

\* C9, amended: the index assignment uses None exactly for a record with no
\* detection targets, and the assignment of None raises; the undefined name
\* is referenced by the per-record append of line 40, inside the loop: it is
\* raised in the loop's first turn whenever the first record has targets,
\* before any later record is looked at, and the concatenation step is
\* reached by no batch.
C9_LatentFailures ==
    /\ \A k \in 1..Len(bassigned) :
          /\ bassigned[k].none <=> brecords[k].ntargets = 0
          /\ ~bassigned[k].none => bassigned[k].v = k - 1
    /\ berr.type = "NameError" =>
          /\ berr.at = "append"
          /\ bi = 0
          /\ Len(bimages) = 1
          /\ btargets = <<>>
    /\ berr.type = "TypeError" =>
          berr.at = "assign" /\ bi = 0 /\ brecords[1].ntargets = 0
    /\ berr.at # "concat"
    /\ bpc = "finish" => brecords = <<>>
    /\ bpc = "done" /\ brecords # <<>> =>
          berr.type = (IF brecords[1].ntargets > 0 THEN "NameError" ELSE "TypeError")
    /\ bpc = "done" /\ brecords = <<>> => berr = [type |-> "RuntimeError", at |-> "stack"]

\* The first of two records has a target: line 40 raises before the second,
\* which has none, is looked at.
C9_Witness ==
    /\ bpc = "done"
    /\ berr = [type |-> "NameError", at |-> "append"]
    /\ Len(brecords) = 2
    /\ brecords[1].ntargets = 1
    /\ brecords[2].ntargets = 0
    /\ bassigned = <<[none |-> FALSE, v |-> 0]>>

\* ========================================================= pl_adapter.py

\* The batch data mappings the driver passes: a batch of the single
\* augmentation builder carries "img_metas", a multi augmentation batch does not.
DataOptions ==
    {[keys |-> {"img", "img_metas", "gt_bboxes", "gt_classification_labels"}],
     [keys |-> {"img", "gt_bboxes", "gt_classification_labels"}]}

\* The log_vars a train_step may return: dict items in order, a value being
\* a tensor or a plain number.
LogVarsOptions ==
    {<<>>,
     <<[k |-> "loss", isTensor |-> TRUE, val |-> 1]>>,
     <<[k |-> "loss_cls", isTensor |-> FALSE, val |-> 2],
       [k |-> "loss", isTensor |-> TRUE, val |-> 3]>>}

OutputsOptions == {[loss |-> l, log_vars |-> lv] : l \in {1, 2}, lv \in LogVarsOptions}

\* What a collaborator may raise.
Exceptions == {"RuntimeError", "KeyError"}

MetricNames == <<"COCOMetric", "ConfusionMatrix", "SimpleMetric">>

HeadOptions == {<<"color_tones">>, <<"color_tones", "shot_framing">>}

\* A training_step that takes the single augmentation mode by default.
StepTypeDefaultTrain(data) ==
    IF "img_metas" \in data.keys THEN "TRAIN_MULTI_AUG" ELSE "TRAIN"

\* lines 64-66
StepType(data) == IF "img_metas" \in data.keys THEN "TRAIN" ELSE "TRAIN_MULTI_AUG"

\* line 145: v.item() if isinstance(v, torch.Tensor) else v
LogValue(v) == [isTensor |-> FALSE, val |-> v.val]

\* lines 143-145: the first n entries of log_vars, logged under mode/key.
LogVarsEntries(log_vars, mode, n) ==
    [j \in 1..n |-> [name |-> mode \o "/" \o log_vars[j].k,
                     value |-> LogValue(log_vars[j])]]

\* lines 131-141: the accuracy of the first n heads, logged under
\* valid_accuracy__<head>.
ClassificationEntries(hs, n) ==
    [j \in 1..n |-> [name |-> "valid_" \o "accuracy" \o "__" \o hs[j],
                     value |-> [isTensor |-> TRUE, val |-> j]]]

\* lines 154-158: the first n metrics' finalize(), each logged under
\* <metric.name>/<key>.
FinalizeEntries(ms, n) ==
    [j \in 1..n |-> [name |-> ms[j] \o "/" \o "mAP",
                     value |-> [isTensor |-> FALSE, val |-> j]]]

Call(fn, mode, nograd) == [fn |-> fn, mode |-> mode, nograd |-> nograd, training |-> training]

AInit ==
    /\ metrics \in {SubSeq(MetricNames, 1, n) : n \in 0..MaxMetrics}
    /\ heads \in HeadOptions
    /\ training \in BOOLEAN
    /\ apc = "idle"
    /\ alast = "none"
    /\ adata = NoData
    /\ aout = NoOutputs
    /\ acalls = <<>>
    /\ alogged = <<>>
    /\ aaccum = <<>>
    /\ aret = 0
    /\ araised = "none"
    /\ validated = FALSE
    /\ nsteps = 0

\* The driver issues a callback, after one that returned or one that raised
\* (to retry, go on or stop after an exception is the driver's policy): the
\* last one's traces are gone.
Issue(name, data) ==
    /\ apc \in {"idle", "raised"}
    /\ nsteps < MaxSteps
    /\ nsteps' = nsteps + 1
    /\ alast' = name
    /\ adata' = data

\* A validation_step that restores the mode it was in when an exception
\* passes through it.
ModeOnRaiseRestored(mode) == TRUE

\* validation_step, lines 88-105: no handler, no finally. The mode an
\* exception leaves the model in is the mode it was in.
ModeOnRaise(mode) == mode

\* An exception leaves the callback for the driver.
Propagate(exc) ==
    /\ araised' = exc
    /\ apc' = "raised"

\* training_step, lines 60-80. exc is what model.train_step raises, out what
\* it returns; the log call of entry `failAt` of log_vars raises logExc
\* (0: none does), the entries before it logged.
TrainingStep(data, exc, out, failAt, logExc) ==
    /\ Issue("training_step", data)
    /\ failAt \in 0..Len(out.log_vars)
    /\ acalls' = <<Call("train_step", StepType(data), FALSE)>>
    /\ aaccum' = <<>>
    /\ IF exc # "none"
       THEN /\ Propagate(exc)
            /\ aout' = NoOutputs
            /\ alogged' = <<>>
            /\ aret' = 0
       ELSE IF failAt # 0
       THEN /\ Propagate(logExc)
            /\ aout' = out
            /\ alogged' = LogVarsEntries(out.log_vars, "train", failAt - 1)
            /\ aret' = 0
       ELSE /\ aout' = out
            /\ alogged' = LogVarsEntries(out.log_vars, "train", Len(out.log_vars))
            /\ aret' = out.loss
            /\ apc' = "idle"
            /\ araised' = "none"
    /\ UNCHANGED <<metrics, heads, training, validated, dsVars, bVars>>

\* validation_step, lines 83-88: model.eval()
VStart(data) ==
    /\ Issue("validation_step", data)
    /\ training' = FALSE
    /\ acalls' = <<Call("eval", "none", FALSE)>>
    /\ aout' = NoOutputs
    /\ alogged' = <<>>
    /\ aaccum' = <<>>
    /\ apc' = "v_train_step"
    /\ aret' = 0
    /\ araised' = "none"
    /\ validated' = TRUE
    /\ UNCHANGED <<metrics, heads, dsVars, bVars>>

VFail(exc) ==
    /\ Propagate(exc)
    /\ training' = ModeOnRaise(training)

\* line 91: outputs = self.model.train_step(data=data, step_type=ForwardType.TRAIN)
VTrainStep(exc, out) ==
    /\ apc = "v_train_step"
    /\ acalls' = Append(acalls, Call("train_step", "TRAIN", TRUE))
    /\ IF exc # "none"
       THEN VFail(exc) /\ aout' = aout
       ELSE aout' = out /\ apc' = "v_forward" /\ UNCHANGED <<training, araised>>
    /\ UNCHANGED <<metrics, heads, alast, adata, alogged, aaccum, aret, validated,
                   nsteps, dsVars, bVars>>

\* line 92: raw_preds = self.model(data=data, forward_type=ForwardType.EVAL)
VForward(exc) ==
    /\ apc = "v_forward"
    /\ acalls' = Append(acalls, Call("forward", "EVAL", TRUE))
    /\ IF exc # "none"
       THEN VFail(exc)
       ELSE apc' = "v_log_classification" /\ UNCHANGED <<training, araised>>
    /\ UNCHANGED <<metrics, heads, alast, adata, aout, alogged, aaccum, aret, validated,
                   nsteps, dsVars, bVars>>

\* lines 93-96: log_classification_metrics; it raises at head `failAt`
\* (0: nowhere), the heads before it logged.
VLogClassification(failAt, exc) ==
    /\ apc = "v_log_classification"
    /\ failAt \in 0..Len(heads)
    /\ IF failAt # 0
       THEN /\ alogged' = alogged \o ClassificationEntries(heads, failAt - 1)
            /\ VFail(exc)
       ELSE /\ alogged' = alogged \o ClassificationEntries(heads, Len(heads))
            /\ apc' = "v_convert"
            /\ UNCHANGED <<training, araised>>
    /\ UNCHANGED <<metrics, heads, alast, adata, aout, acalls, aaccum, aret, validated,
                   nsteps, dsVars, bVars>>

\* lines 98-100: convert_raw_predictions
VConvert(exc) ==
    /\ apc = "v_convert"
    /\ IF exc # "none"
       THEN VFail(exc)
       ELSE apc' = "v_accumulate" /\ UNCHANGED <<training, araised>>
    /\ UNCHANGED <<metrics, heads, alast, adata, aout, acalls, alogged, aaccum, aret,
                   validated, nsteps, dsVars, bVars>>

\* lines 101, 150-152: accumulate_metrics; metric `failAt` raises (0: none),
\* the metrics before it accumulated, its own call made.
VAccumulate(failAt, exc) ==
    /\ apc = "v_accumulate"
    /\ failAt \in 0..Len(metrics)
    /\ IF failAt # 0
       THEN /\ aaccum' = [j \in 1..failAt |-> metrics[j]]
            /\ VFail(exc)
       ELSE /\ aaccum' = metrics
            /\ apc' = "v_log_vars"
            /\ UNCHANGED <<training, araised>>
    /\ UNCHANGED <<metrics, heads, alast, adata, aout, acalls, alogged, aret, validated,
                   nsteps, dsVars, bVars>>

\* line 102: self._log_vars(outputs["log_vars"], "valid"); the log call of
\* entry `failAt` raises (0: none).
VLogVars(failAt, exc) ==
    /\ apc = "v_log_vars"
    /\ failAt \in 0..Len(aout.log_vars)
    /\ IF failAt # 0
       THEN /\ alogged' = alogged \o LogVarsEntries(aout.log_vars, "valid", failAt - 1)
            /\ VFail(exc)
       ELSE /\ alogged' = alogged
                    \o LogVarsEntries(aout.log_vars, "valid", Len(aout.log_vars))
            /\ apc' = "v_restore"
            /\ UNCHANGED <<training, araised>>
    /\ UNCHANGED <<metrics, heads, alast, adata, aout, acalls, aaccum, aret, validated,
                   nsteps, dsVars, bVars>>

\* line 105: self.model.train(), and the step returns.
VRestore ==
    /\ apc = "v_restore"
    /\ training' = TRUE
    /\ acalls' = Append(acalls, Call("train", "none", FALSE))
    /\ apc' = "idle"
    /\ UNCHANGED <<metrics, heads, alast, adata, aout, alogged, aaccum, aret, araised,
                   validated, nsteps, dsVars, bVars>>

\* validation_epoch_end, lines 147-158: metric by metric, finalize and log.
\* Metric `failAt` raises in its finalize() or in the log of its entry
\* (0: none does), the metrics before it finalized and logged.
ValidationEpochEnd(failAt, exc) ==
    /\ Issue("validation_epoch_end", NoData)
    /\ failAt \in 0..Len(metrics)
    /\ acalls' = <<>>
    /\ aaccum' = <<>>
    /\ aout' = NoOutputs
    /\ aret' = 0
    /\ IF failAt # 0
       THEN Propagate(exc) /\ alogged' = FinalizeEntries(metrics, failAt - 1)
       ELSE /\ alogged' = FinalizeEntries(metrics, Len(metrics))
            /\ apc' = "idle"
            /\ araised' = "none"
    /\ UNCHANGED <<metrics, heads, training, validated, dsVars, bVars>>

MayRaise == Exceptions \cup {"none"}

ANext ==
    \/ \E data \in DataOptions, exc \in MayRaise, out \in OutputsOptions :
          \E failAt \in 0..Len(out.log_vars), logExc \in Exceptions :
             TrainingStep(data, exc, out, failAt, logExc)
    \/ \E data \in DataOptions : VStart(data)
    \/ \E exc \in MayRaise, out \in OutputsOptions : VTrainStep(exc, out)
    \/ \E exc \in MayRaise : VForward(exc)
    \/ \E failAt \in 0..Len(heads), exc \in Exceptions : VLogClassification(failAt, exc)
    \/ \E exc \in MayRaise : VConvert(exc)
    \/ \E failAt \in 0..Len(metrics), exc \in Exceptions : VAccumulate(failAt, exc)
    \/ \E failAt \in 0..Len(aout.log_vars), exc \in Exceptions : VLogVars(failAt, exc)
    \/ VRestore
    \/ \E failAt \in 0..Len(metrics), exc \in Exceptions : ValidationEpochEnd(failAt, exc)

AdapterInit == AInit /\ DsOff /\ BOff

SpecAdapter == AdapterInit /\ [][ANext]_vars

\* --------------------------------------------- pl_adapter.py: the claims

CallNames == [j \in 1..Len(acalls) |-> acalls[j].fn]

\* C6: a training_step chooses the forward mode from the batch data alone
\* (TRAIN when it has the key "img_metas", TRAIN_MULTI_AUG otherwise) and
\* calls the model's train_step exactly once, with that mode; one that
\* returns has logged every entry of the returned log_vars exactly once,
\* under train/<key>, and has returned the model's loss unchanged; one that
\* raised has logged the entries before the failing one only.
C6_TrainingStep ==
    alast = "training_step" =>
        /\ Len(acalls) = 1
        /\ acalls[1].fn = "train_step"
        /\ acalls[1].mode =
             (IF "img_metas" \in adata.keys THEN "TRAIN" ELSE "TRAIN_MULTI_AUG")
        /\ apc = "idle" =>
              /\ Len(alogged) = Len(aout.log_vars)
              /\ \A j \in 1..Len(alogged) :
                    /\ alogged[j].name = "train/" \o aout.log_vars[j].k
                    /\ alogged[j].value.val = aout.log_vars[j].val
              /\ aret = aout.loss
        /\ apc = "raised" =>
              /\ alogged = LogVarsEntries(aout.log_vars, "train", Len(alogged))
              /\ aout # NoOutputs => Len(alogged) < Len(aout.log_vars)
              /\ aret = 0

C6_Witness ==
    /\ alast = "training_step"
    /\ apc = "idle"
    /\ "img_metas" \notin adata.keys
    /\ Len(alogged) = 2
    /\ alogged[1].name = "train/loss_cls"
    /\ aret = 2

InValidation ==
    apc \in {"v_train_step", "v_forward", "v_log_classification", "v_convert",
             "v_accumulate", "v_log_vars", "v_restore"}

\* C7: in a validation_step the model is put in evaluation mode before either
\* forward pass, the loss pass (train_step, TRAIN) runs before the prediction
\* pass (forward, EVAL), and training mode is restored afterwards: whatever
\* callbacks the driver issues, the model is in training mode after each
\* validation_step, however it ended, and when any later training_step
\* calls it.
C7_ModeRestored ==
    /\ InValidation => ~training
    /\ alast = "validation_step" =>
          /\ acalls[1].fn = "eval"
          /\ \A j \in 1..Len(acalls) :
                /\ acalls[j].fn = "train_step" => j = 2 /\ acalls[j].mode = "TRAIN"
                /\ acalls[j].fn = "forward" => j = 3 /\ acalls[j].mode = "EVAL"
                /\ acalls[j].fn \in {"train_step", "forward"} => ~acalls[j].training
                /\ acalls[j].fn = "train" => j = 4
          /\ apc = "idle" =>
                CallNames = <<"eval", "train_step", "forward", "train">>
    /\ validated /\ ~InValidation => training
    /\ validated /\ alast = "training_step" => acalls[1].training

\* C10: validation_step has no cleanup on the error path: when a call it makes
\* after the switch to evaluation mode raises, the exception reaches the
\* driver, the switch back to training mode is not executed and the model
\* stays in evaluation mode, and the metrics not reached yet receive no
\* accumulate call.
C10_NoCleanupOnError ==
    alast = "validation_step" /\ apc = "raised" =>
        /\ araised \in Exceptions
        /\ ~training
        /\ \A j \in 1..Len(acalls) : acalls[j].fn # "train"
        /\ Len(aaccum) <= Len(metrics)
        /\ aaccum = SubSeq(metrics, 1, Len(aaccum))
        /\ Len(acalls) < 3 => aaccum = <<>>

\* The first of two metrics raised: the second was never called.
C10_Witness ==
    /\ alast = "validation_step"
    /\ apc = "raised"
    /\ Len(metrics) = 2
    /\ aaccum = <<"COCOMetric">>
    /\ ~training

====
